---- MODULE Spec2Model ----
(***************************************************************************)
(* Model of lean.components.cloud.data_downloader.DataDownloader: the      *)
(* per-file download protocol, the overwrite policy held in                *)
(* _force_overwrite and the lazily populated _map_files_cache.             *)
(***************************************************************************)
EXTENDS Integers, Sequences, FiniteSets, TLC

\* ------------------------------------------------------------------ bounds
\* longest data_files list handed to download_files
MaxFiles == 2
\* most entries in one list_files answer
MaxListing == 2
\* most calls one caller makes on the DataDownloader instance
MaxCalls == 2
\* the catalog's dates are 1..MaxDate
MaxDate == 3
\* most entries in one listing of a ticker's directory
MaxEntries == 3

\* ------------------------------------------------------------- local paths
\* A relative path: its parent directory, its stem and its extension.
Path(d, n, e) == [dir |-> d, name |-> n, ext |-> e]

ZipA == Path("map_files", "a", ".zip")
ZipB == Path("map_files", "b", ".zip")
Readme == Path("map_files", "readme", ".txt")
DataX == Path("minute", "x", ".zip")
DataY == Path("minute", "y", ".zip")

DirNames == {"map_files", "minute"}
\* what list_files("equity/usa/map_files") may name
ListingNames == {ZipA, ZipB, Readme}
\* what a caller may ask download_files for
DataChoices == {DataX, DataY}
\* every path the program touches below the data directory
FilePaths == {ZipA, ZipB, DataX, DataY}

\* str.endswith
endswith(p, suffix) == p.ext = suffix

\* ------------------------------------------------------------ file content
Absent == [kind |-> "absent", bytes |-> <<>>]
Dir == [kind |-> "dir", bytes |-> <<>>]
File(b) == [kind |-> "file", bytes |-> b]

\* content the remote may deliver for a path: a bundle is the sequence of its
\* entries, one of which may be text MapFile.parse rejects
RemoteBytes(p) ==
    IF p \in ListingNames THEN {<<>>, <<"m1", "m2">>, <<"m1", "bad">>} ELSE {<<"new">>}
OldBytes == <<"m1">>

\* Path.exists / Path.is_file on data_directory / relative_file
exists(fsys, dirset, p) == p.dir \in dirset /\ fsys[p].kind # "absent"
is_file(fsys, dirset, p) == p.dir \in dirset /\ fsys[p].kind = "file"

\* ------------------------------------------------------------- environment
\* api_client.data.download_file: content, RequestFailedError("File not
\* found"), or any other failure
FetchOutcomes(p) ==
    {[kind |-> "ok", bytes |-> b] : b \in RemoteBytes(p)}
        \cup {[kind |-> "not_found", bytes |-> <<>>], [kind |-> "error", bytes |-> <<>>]}

RECURSIVE SeqsUpTo(_, _)
SeqsUpTo(S, n) ==
    IF n = 0 THEN {<<>>}
    ELSE LET shorter == SeqsUpTo(S, n - 1)
         IN shorter \cup {Append(s, x) : s \in {q \in shorter : Len(q) = n - 1}, x \in S}

Threads == {1, 2}
Main == 1

VARIABLES
    force_overwrite,   \* self._force_overwrite: "None", "True" or "False"
    map_files_cache,   \* self._map_files_cache
    fs,                \* the local files below the data directory
    dirs,              \* the local directories below the data directory
    pc,                \* where each caller is
    data_files,        \* download_files: its data_files argument
    index,             \* download_files: the position in data_files
    overwrite_flag,    \* download_files: its overwrite_flag argument
    map_files_zip,     \* download_map_files: the bundle it selected
    status,            \* how each caller's last call ended
    last_op,           \* which operation each caller's last call was
    mf_history,        \* how each finished download_map_files call ended, in order
    log,               \* what the current download_files call has done so far
    start_force,       \* _force_overwrite when the current download_files call began
    calls,             \* calls made so far, per caller
    net,               \* download_map_files: listing and fetch calls of the current call
    bundle,            \* download_map_files: what _download_file did for the bundle in this call
    file_content,      \* _download_file: its local file_content, <<>> outside of it
    product,           \* the EquityOptionProduct being built, and how far build has come
    probe,             \* validate_ticker: what its last call returned
    listing_calls,     \* the _list_files / _list_dates calls of the last product step
    catalog,           \* what the catalog answered to the last listing whose answer is used
    calendar,          \* the tradable dates the calendar answered with
    product_files      \* what _get_data_files returned

vars == <<force_overwrite, map_files_cache, fs, dirs, pc, data_files, index,
          overwrite_flag, map_files_zip, status, last_op, mf_history, log, start_force,
          calls, net, bundle, file_content, product, probe, listing_calls, catalog,
          calendar, product_files>>

\* the product but for the catalog's last answer
product_vars == <<product, probe, listing_calls, calendar, product_files>>

NoNet == [lists |-> 0, fetches |-> 0]
NoneCache == [is_none |-> TRUE, list |-> <<>>]
Cached(l) == [is_none |-> FALSE, list |-> l]

\* --------------------------------------------------------------- the policy
\* click.confirm's answer stored in _force_overwrite
decision(answer) == IF answer THEN "True" ELSE "False"

\* _should_overwrite that returns the answer without keeping it
should_overwrite_forgets(force, flag, answer) ==
    IF flag \/ force = "True"
    THEN [ret |-> TRUE, force |-> force, events |-> <<>>]
    ELSE [ret |-> IF force = "None" THEN answer ELSE FALSE,
          force |-> force,
          events |-> <<"warn_exists">>
                     \o (IF force = "None" THEN <<"confirm">> ELSE <<>>)
                     \o (IF force = "None" /\ answer THEN <<>> ELSE <<"warn_not_billed">>)]

\* _should_overwrite that asks again whenever overwriting is not yet allowed
should_overwrite_asks_again(force, flag, answer) ==
    IF flag \/ force = "True"
    THEN [ret |-> TRUE, force |-> force, events |-> <<>>]
    ELSE [ret |-> answer,
          force |-> IF answer THEN "True" ELSE "False",
          events |-> <<"warn_exists", "confirm">>
                     \o (IF answer THEN <<>> ELSE <<"warn_not_billed">>)]

\* _should_overwrite that settles the decision before it looks at the flag
should_overwrite_asks_first(force, flag, answer) ==
    LET asked == force = "None"
        force1 == IF asked THEN decision(answer) ELSE force
    IN [ret |-> flag \/ force1 = "True",
        force |-> force1,
        events |-> (IF asked THEN <<"warn_exists", "confirm">> ELSE <<>>)
                   \o (IF ~flag /\ force1 # "True" THEN <<"warn_not_billed">> ELSE <<>>)]

\* DataDownloader._should_overwrite
should_overwrite(force, flag, answer) ==
    IF flag \/ force = "True"
    THEN [ret |-> TRUE, force |-> force, events |-> <<>>]
    ELSE LET asked == force = "None"
             force1 == IF asked THEN decision(answer) ELSE force
         IN [ret |-> force1 = "True",
             force |-> force1,
             events |-> <<"warn_exists">>
                        \o (IF asked THEN <<"confirm">> ELSE <<>>)
                        \o (IF force1 # "True" THEN <<"warn_not_billed">> ELSE <<>>)]

\* the write with the file opened for appending
write_file_appends(fsys, dirset, p, bytes) ==
    IF fsys[p].kind = "dir"
    THEN [fs |-> fsys, dirs |-> dirset \cup {p.dir}, raised |-> TRUE,
          events |-> <<"write_failed">>]
    ELSE [fs |-> [fsys EXCEPT ![p] = File(fsys[p].bytes \o bytes)],
          dirs |-> dirset \cup {p.dir}, raised |-> FALSE, events |-> <<"write">>]

\* lines 113-115: mkdir(parents=True, exist_ok=True), then open("wb+") and write
write_file(fsys, dirset, p, bytes) ==
    IF fsys[p].kind = "dir"
    THEN [fs |-> fsys, dirs |-> dirset \cup {p.dir}, raised |-> TRUE,
          events |-> <<"write_failed">>]
    ELSE [fs |-> [fsys EXCEPT ![p] = File(bytes)], dirs |-> dirset \cup {p.dir},
          raised |-> FALSE, events |-> <<"write">>]

\* the fetch with every RequestFailedError passed on to the caller
fetch_result_always_raises(fsys, dirset, p, outcome) ==
    CASE outcome.kind \in {"not_found", "error"} ->
            [fs |-> fsys, dirs |-> dirset, raised |-> TRUE,
             events |-> <<"fetch", outcome.kind, "raise">>]
      [] OTHER ->
            LET w == write_file(fsys, dirset, p, outcome.bytes)
            IN [fs |-> w.fs, dirs |-> w.dirs, raised |-> w.raised,
                events |-> <<"fetch", outcome.kind>> \o w.events]

\* lines 102-111: the fetch and what becomes of its failure
fetch_result(fsys, dirset, p, outcome) ==
    CASE outcome.kind = "not_found" ->
            [fs |-> fsys, dirs |-> dirset, raised |-> FALSE,
             events |-> <<"fetch", outcome.kind, "warn_not_found">>]
      [] outcome.kind = "error" ->
            [fs |-> fsys, dirs |-> dirset, raised |-> TRUE,
             events |-> <<"fetch", outcome.kind, "raise">>]
      [] OTHER ->
            LET w == write_file(fsys, dirset, p, outcome.bytes)
            IN [fs |-> w.fs, dirs |-> w.dirs, raised |-> w.raised,
                events |-> <<"fetch", outcome.kind>> \o w.events]

\* _download_file that consults the policy but fetches whatever it says
download_file_ignores_policy(fsys, dirset, force, relative_file, flag, answer, outcome) ==
    LET there == exists(fsys, dirset, relative_file)
        so == should_overwrite(force, flag, answer)
        seen == IF there THEN <<"exists">> \o so.events ELSE <<>>
        f == fetch_result(fsys, dirset, relative_file, outcome)
    IN [fs |-> f.fs, dirs |-> f.dirs,
        force |-> IF there THEN so.force ELSE force,
        raised |-> f.raised,
        events |-> seen \o f.events]

\* a download that puts every file to the overwrite policy, local or not
download_file_always_consults(fsys, dirset, force, relative_file, flag, answer, outcome) ==
    LET so == should_overwrite(force, flag, answer)
    IN IF ~so.ret
       THEN [fs |-> fsys, dirs |-> dirset, force |-> so.force, raised |-> FALSE,
             events |-> so.events]
       ELSE LET f == fetch_result(fsys, dirset, relative_file, outcome)
            IN [fs |-> f.fs, dirs |-> f.dirs, force |-> so.force, raised |-> f.raised,
                events |-> so.events \o f.events]

\* a download that, when the fetch or the write fails, undoes what the
\* instance has done: no local file is left and the decision is forgotten
download_file_rolls_back(fsys, dirset, force, relative_file, flag, answer, outcome) ==
    LET there == exists(fsys, dirset, relative_file)
        so == should_overwrite(force, flag, answer)
        seen == IF there THEN <<"exists">> \o so.events ELSE <<>>
    IN IF there /\ ~so.ret
       THEN [fs |-> fsys, dirs |-> dirset, force |-> so.force, raised |-> FALSE,
             events |-> seen]
       ELSE LET f == fetch_result(fsys, dirset, relative_file, outcome)
            IN IF f.raised
               THEN [fs |-> [p \in FilePaths |-> IF fsys[p].kind = "file" THEN Absent
                                                 ELSE fsys[p]],
                     dirs |-> dirset, force |-> "None", raised |-> TRUE,
                     events |-> seen \o f.events]
               ELSE [fs |-> f.fs, dirs |-> f.dirs,
                     force |-> IF there THEN so.force ELSE force,
                     raised |-> FALSE, events |-> seen \o f.events]

\* DataDownloader._download_file
download_file(fsys, dirset, force, relative_file, flag, answer, outcome) ==
    LET there == exists(fsys, dirset, relative_file)
        so == should_overwrite(force, flag, answer)
        seen == IF there THEN <<"exists">> \o so.events ELSE <<>>
    IN IF there /\ ~so.ret
       THEN [fs |-> fsys, dirs |-> dirset, force |-> so.force, raised |-> FALSE,
             events |-> seen]
       ELSE LET f == fetch_result(fsys, dirset, relative_file, outcome)
            IN [fs |-> f.fs, dirs |-> f.dirs,
                force |-> IF there THEN so.force ELSE force,
                raised |-> f.raised,
                events |-> seen \o f.events]

\* the events of one file, tagged with its position in data_files
RECURSIVE tagged(_, _)
tagged(i, evs) ==
    IF evs = <<>> THEN <<>>
    ELSE <<[i |-> i, ev |-> Head(evs)]>> \o tagged(i, Tail(evs))

\* ------------------------------------------------- EquityOptionProduct
\* A string is the sequence of its pieces; str.lower works piece by piece.
lower_piece(c) ==
    CASE c = "S" -> "s" [] c = "P" -> "p" [] c = "Y" -> "y"
      [] c = "U" -> "u" [] c = "A" -> "a"
      [] c = "T" -> "t" [] c = "C" -> "c" [] c = "E" -> "e"
      [] OTHER -> c

lower(str) == [k \in 1..Len(str) |-> lower_piece(str[k])]

\* DataType members used by build (line 52), by their names
Trade == <<"T", "rade">>
Chains == <<"C", "hains">>
\* OptionStyle members (lines 26-28), by their names
American == <<"A", "merican">>
European == <<"E", "uropean">>
NoStyle == <<>>

USA == <<"U", "S", "A">>
Tickers == {<<"S", "P", "Y">>, <<"s", "p", "y">>}

Dates == 1..MaxDate
\* a date token of a catalog entry that is not made of digits
NoDigits == 0

NoProduct ==
    [stage |-> "asking", data_type |-> Trade, market |-> USA, ticker |-> <<>>,
     option_style |-> NoStyle, start_date |-> 1, end_date |-> 1]
NoFiles == [done |-> FALSE, list |-> <<>>]

\* lines 63 and 94: base_directory
base_directory(market, data_type) ==
    <<"option/">> \o lower(market) \o <<"/">>
        \o (IF data_type = Chains THEN <<"chains">> ELSE <<"minute">>)

\* lines 70 and 98: f"{base_directory}/{ticker.lower()}/"
ticker_directory(market, data_type, ticker) ==
    base_directory(market, data_type) \o <<"/">> \o lower(ticker) \o <<"/">>

\* lines 71 and 99: the pattern /(\d+)_{data_type}_{option_style}\.zip
zip_pattern(data_type, option_style) ==
    [data_type |-> lower(data_type), option_style |-> lower(option_style)]

\* a remote entry below a ticker directory: {date}_{data_type}_{option_style}{ext}
Entry(d, data_type, option_style) ==
    [date |-> d, data_type |-> data_type, option_style |-> option_style, ext |-> ".zip"]

\* what a listing of a ticker directory may hold
CatalogEntries ==
    {Entry(d, lower(Trade), lower(American)) : d \in Dates \cup {NoDigits}}
        \cup {Entry(1, lower(Trade), lower(European))}

\* re.search of the pattern in the entry's path
matches(pattern, entry) ==
    /\ entry.date # NoDigits
    /\ entry.data_type = pattern.data_type
    /\ entry.option_style = pattern.option_style
    /\ entry.ext = ".zip"

\* Product._list_files: the entries of the listing the pattern matches
list_files(pattern, answer) == SelectSeq(answer, LAMBDA e : matches(pattern, e))

\* ascending sequence of a set of dates
RECURSIVE sorted(_)
sorted(S) ==
    IF S = {} THEN <<>>
    ELSE LET least == CHOOSE x \in S : \A y \in S : x <= y
         IN <<least>> \o sorted(S \ {least})

\* the dates of the matching entries inside the range, as the listing has them
resolve_date_range_as_listed(pattern, answer, start_date, end_date) ==
    LET found == list_files(pattern, answer)
        kept == SelectSeq(found, LAMBDA e : start_date <= e.date /\ e.date <= end_date)
    IN [k \in 1..Len(kept) |-> kept[k].date]

\* SecurityProduct._get_data_files_in_range: the dates of the matching
\* entries, each once, in ascending order, within [start_date, end_date]
resolve_date_range(pattern, answer, start_date, end_date) ==
    LET found == list_files(pattern, answer)
    IN sorted({found[k].date : k \in {j \in 1..Len(found) :
                              start_date <= found[j].date /\ found[j].date <= end_date}})

\* SecurityProduct._get_tradable_dates: the tradable dates from start_date to
\* end_date, in calendar order
get_tradable_dates(tradable, start_date, end_date) ==
    sorted({d \in tradable : start_date <= d /\ d <= end_date})

\* line 104: f"{base_directory}/{date}/{self._ticker.lower()}.csv"
chains_file(market, ticker, date) ==
    [directory |-> base_directory(market, Chains), date |-> date,
     name |-> lower(ticker), ext |-> ".csv"]

\* a file of the ranged branch: {directory}{date}_{data_type}_{option_style}.zip
ranged_file(directory, pattern, date) ==
    [directory |-> directory, date |-> date,
     name |-> <<"_">> \o pattern.data_type \o <<"_">> \o pattern.option_style, ext |-> ".zip"]

\* a listing call as the catalog saw it
ListingCall(directory, pattern) == [directory |-> directory, pattern |-> pattern]

\* a probe that takes any entry of the directory for a match
validate_ticker_any_entry(data_type, option_style, market, t, answer) ==
    IF data_type = Chains
    THEN [ret |-> TRUE, listing_calls |-> <<>>]
    ELSE [ret |-> Len(answer) > 0,
          listing_calls |-> <<ListingCall(ticker_directory(market, data_type, t),
                                          zip_pattern(data_type, option_style))>>]

\* build.validate_ticker, lines 65-71
validate_ticker(data_type, option_style, market, t, answer) ==
    IF data_type = Chains
    THEN [ret |-> TRUE, listing_calls |-> <<>>]
    ELSE [ret |-> Len(list_files(zip_pattern(data_type, option_style), answer)) > 0,
          listing_calls |-> <<ListingCall(ticker_directory(market, data_type, t),
                                          zip_pattern(data_type, option_style))>>]

\* a resolver that takes the ranged branch for every data type
get_data_files_always_ranged(p, answer, tradable) ==
    LET directory == ticker_directory(p.market, p.data_type, p.ticker)
        pattern == zip_pattern(p.data_type, p.option_style)
        found == resolve_date_range(pattern, answer, p.start_date, p.end_date)
    IN [list |-> [k \in 1..Len(found) |-> ranged_file(directory, pattern, found[k])],
        listing_calls |-> <<ListingCall(directory, pattern)>>]

\* EquityOptionProduct._get_data_files, lines 93-106
get_data_files(p, answer, tradable) ==
    IF p.data_type # Chains
    THEN LET directory == ticker_directory(p.market, p.data_type, p.ticker)
             pattern == zip_pattern(p.data_type, p.option_style)
             found == resolve_date_range(pattern, answer, p.start_date, p.end_date)
         IN [list |-> [k \in 1..Len(found) |-> ranged_file(directory, pattern, found[k])],
             listing_calls |-> <<ListingCall(directory, pattern)>>]
    ELSE LET found == get_tradable_dates(tradable, p.start_date, p.end_date)
         IN [list |-> [k \in 1..Len(found) |-> chains_file(p.market, p.ticker, found[k])],
             listing_calls |-> <<>>]

\* ------------------------------------------------------------------- Init
\* what may lie below the data directory before the first call
InitFile(p) ==
    CASE p = DataX -> {Absent, File(OldBytes)}
      [] p = DataY -> {Absent, File(OldBytes), Dir}
      [] p = ZipA -> {Absent, File(OldBytes)}
      [] OTHER -> {Absent, Dir}

Init ==
    /\ force_overwrite = "None"
    /\ map_files_cache = NoneCache
    /\ fs \in {f \in [FilePaths -> {Absent, Dir, File(OldBytes)}] :
                  \A p \in FilePaths : f[p] \in InitFile(p)}
    /\ dirs = {p.dir : p \in {q \in FilePaths : fs[q].kind # "absent"}}
    /\ pc = [t \in Threads |-> "idle"]
    /\ data_files = [t \in Threads |-> <<>>]
    /\ index = [t \in Threads |-> 0]
    /\ overwrite_flag = [t \in Threads |-> FALSE]
    /\ map_files_zip = [t \in Threads |-> ZipA]
    /\ status = [t \in Threads |-> "none"]
    /\ last_op = [t \in Threads |-> "none"]
    /\ mf_history = <<>>
    /\ log = <<>>
    /\ start_force = "None"
    /\ calls = [t \in Threads |-> 0]
    /\ net = [t \in Threads |-> NoNet]
    /\ bundle = [t \in Threads |-> <<>>]
    /\ file_content = <<>>
    /\ product = NoProduct
    /\ probe = "none"
    /\ listing_calls = <<>>
    /\ catalog = <<>>
    /\ calendar = {}
    /\ product_files = NoFiles

\* --------------------------------------------------------- download_files
\* the loop going on to the next file after a failure
after_file_swallows(t, raised) ==
    IF index[t] >= Len(data_files[t]) THEN "returned" ELSE "running"

\* the loop of lines 52-55 has run out of files, or goes on
after_file(t, raised) ==
    IF raised THEN "raised"
    ELSE IF index[t] >= Len(data_files[t]) THEN "returned" ELSE "running"

\* download_files that starts every call from an undecided policy
download_files_resets(t, files, flag) ==
    /\ pc[t] = "idle"
    /\ calls[t] < MaxCalls
    /\ calls' = [calls EXCEPT ![t] = @ + 1]
    /\ data_files' = [data_files EXCEPT ![t] = files]
    /\ overwrite_flag' = [overwrite_flag EXCEPT ![t] = flag]
    /\ index' = [index EXCEPT ![t] = 1]
    /\ log' = <<>>
    /\ start_force' = force_overwrite
    /\ force_overwrite' = "None"
    /\ last_op' = [last_op EXCEPT ![t] = "download_files"]
    /\ IF files = <<>>
       THEN /\ pc' = pc
            /\ status' = [status EXCEPT ![t] = "returned"]
       ELSE /\ pc' = [pc EXCEPT ![t] = "download_files"]
            /\ status' = [status EXCEPT ![t] = "running"]
    /\ file_content' = <<>>
    /\ UNCHANGED <<map_files_cache, fs, dirs, map_files_zip, mf_history, net, bundle>>

\* download_files, lines 43-50: the call is made
download_files(t, files, flag) ==
    /\ pc[t] = "idle"
    /\ calls[t] < MaxCalls
    /\ calls' = [calls EXCEPT ![t] = @ + 1]
    /\ data_files' = [data_files EXCEPT ![t] = files]
    /\ overwrite_flag' = [overwrite_flag EXCEPT ![t] = flag]
    /\ index' = [index EXCEPT ![t] = 1]
    /\ log' = <<>>
    /\ start_force' = force_overwrite
    /\ last_op' = [last_op EXCEPT ![t] = "download_files"]
    /\ IF files = <<>>
       THEN /\ pc' = pc
            /\ status' = [status EXCEPT ![t] = "returned"]
       ELSE /\ pc' = [pc EXCEPT ![t] = "download_files"]
            /\ status' = [status EXCEPT ![t] = "running"]
    /\ file_content' = <<>>
    /\ UNCHANGED <<force_overwrite, map_files_cache, fs, dirs, map_files_zip, mf_history, net,
                   bundle>>

\* line 103: file_content is assigned when the download_file call was made
\* and answered with content
line_103(events, outcome) ==
    IF \E k \in 1..Len(events) : events[k] = "ok" THEN outcome.bytes ELSE <<>>

\* a turn that reports its progress once the file has been dealt with
turn_events_progress_last(i, events) ==
    tagged(i, events) \o <<[i |-> i, ev |-> "progress"]>>

\* lines 53-55: logger.info with the progress, then the _download_file call
turn_events(i, events) ==
    <<[i |-> i, ev |-> "progress"]>> \o tagged(i, events)

\* download_files, lines 52-55: one turn of the loop
download_files_loop(t, answer, outcome) ==
    /\ pc[t] = "download_files"
    /\ LET d == download_file(fs, dirs, force_overwrite, data_files[t][index[t]],
                              overwrite_flag[t], answer, outcome)
           how == after_file(t, d.raised)
       IN /\ fs' = d.fs
          /\ dirs' = d.dirs
          /\ force_overwrite' = d.force
          /\ log' = log \o turn_events(index[t], d.events)
          /\ status' = [status EXCEPT ![t] = how]
          /\ pc' = [pc EXCEPT ![t] = IF how = "running" THEN "download_files" ELSE "idle"]
          /\ index' = [index EXCEPT ![t] = IF how = "running" THEN @ + 1 ELSE @]
          /\ file_content' = line_103(d.events, outcome)
    /\ UNCHANGED <<map_files_cache, data_files, overwrite_flag, map_files_zip, last_op,
                   mf_history, start_force, calls, net, bundle>>

\* ----------------------------------------------------- download_map_files
\* MapFile.parse on the decoded text of one archive entry
MapFile_parse(text) == [raised |-> text = "bad", map_file |-> <<"MapFile", text>>]

\* lines 76-79: every entry of the archive parsed in archive order, up to the
\* first one that raises
RECURSIVE parse_entries(_, _)
parse_entries(entries, map_files) ==
    IF entries = <<>> THEN [raised |-> FALSE, map_files |-> map_files]
    ELSE LET m == MapFile_parse(Head(entries))
         IN IF m.raised THEN [raised |-> TRUE, map_files |-> map_files]
            ELSE parse_entries(Tail(entries), Append(map_files, m.map_file))

\* the cache set to whatever the parse loop had collected
store_cache_partial(cache, parsed) == Cached(parsed.map_files)

\* line 81: the cache after the parse loop
store_cache(cache, parsed) ==
    IF parsed.raised THEN cache ELSE Cached(parsed.map_files)

\* the cache tested for truth instead of for None
cache_hit_truthy(cache) == ~cache.is_none /\ cache.list # <<>>

\* a test that takes any earlier call, failed or not, for a filled cache
cache_hit_after_any_call(cache) == ~cache.is_none \/ mf_history # <<>>

\* line 63: the cache holds a list, possibly an empty one
cache_hit(cache) == ~cache.is_none

\* line 67: [m for m in map_files if m.endswith(".zip")]
zip_entries(listing) == SelectSeq(listing, LAMBDA m : endswith(m, ".zip"))

\* what one call left behind for its caller
mf_result(ok, list, n) == [ok |-> ok, list |-> list, lists |-> n.lists, fetches |-> n.fetches]

\* the call ends by raising
mf_raise(t, n) ==
    /\ pc' = [pc EXCEPT ![t] = "idle"]
    /\ status' = [status EXCEPT ![t] = "raised"]
    /\ mf_history' = Append(mf_history, mf_result(FALSE, <<>>, n))

\* the call ends by returning list
mf_return(t, list, n) ==
    /\ pc' = [pc EXCEPT ![t] = "idle"]
    /\ status' = [status EXCEPT ![t] = "returned"]
    /\ mf_history' = Append(mf_history, mf_result(TRUE, list, n))

\* download_map_files, lines 63-64: the call is made and the cache looked at
download_map_files(t) ==
    /\ pc[t] = "idle"
    /\ calls[t] < MaxCalls
    /\ calls' = [calls EXCEPT ![t] = @ + 1]
    /\ last_op' = [last_op EXCEPT ![t] = "download_map_files"]
    /\ net' = [net EXCEPT ![t] = NoNet]
    /\ bundle' = [bundle EXCEPT ![t] = <<>>]
    /\ IF cache_hit(map_files_cache)
       THEN mf_return(t, map_files_cache.list, NoNet)
       ELSE /\ pc' = [pc EXCEPT ![t] = "list_files"]
            /\ status' = [status EXCEPT ![t] = "running"]
            /\ mf_history' = mf_history
    /\ UNCHANGED <<force_overwrite, map_files_cache, fs, dirs, data_files, index,
                   overwrite_flag, map_files_zip, log, start_force>>
    /\ file_content' = <<>>

\* the first of the .zip entries
first_zip(listing) == zip_entries(listing)[1]

\* line 67: [...][-1], the last of the .zip entries
last_zip(listing) == zip_entries(listing)[Len(zip_entries(listing))]

\* download_map_files, lines 66-67: the listing call and the choice of bundle
list_map_files(t, answer) ==
    /\ pc[t] = "list_files"
    /\ net' = [net EXCEPT ![t].lists = @ + 1]
    /\ IF answer.raised \/ zip_entries(answer.listing) = <<>>
       THEN /\ mf_raise(t, net'[t])
            /\ map_files_zip' = map_files_zip
       ELSE /\ map_files_zip' = [map_files_zip EXCEPT ![t] = last_zip(answer.listing)]
            /\ pc' = [pc EXCEPT ![t] = "fetch_bundle"]
            /\ UNCHANGED <<status, mf_history>>
    /\ UNCHANGED <<force_overwrite, map_files_cache, fs, dirs, data_files, index,
                   overwrite_flag, last_op, log, start_force, calls, bundle>>
    /\ file_content' = <<>>

\* a fetch of the bundle that leaves the overwrite to the stored decision
fetch_bundle_asks(t, answer, outcome) ==
    /\ pc[t] = "fetch_bundle"
    /\ IF is_file(fs, dirs, map_files_zip[t])
       THEN /\ pc' = [pc EXCEPT ![t] = "parse_bundle"]
            /\ bundle' = [bundle EXCEPT ![t] = <<"local">>]
            /\ file_content' = <<>>
            /\ UNCHANGED <<force_overwrite, fs, dirs, status, mf_history, net>>
       ELSE LET d == download_file(fs, dirs, force_overwrite, map_files_zip[t], FALSE,
                                   answer, outcome)
                fetched == \E k \in 1..Len(d.events) : d.events[k] = "fetch"
            IN /\ fs' = d.fs
               /\ dirs' = d.dirs
               /\ force_overwrite' = d.force
               /\ net' = [net EXCEPT ![t].fetches = IF fetched THEN @ + 1 ELSE @]
               /\ bundle' = [bundle EXCEPT ![t] = d.events]
               /\ file_content' = line_103(d.events, outcome)
               /\ IF d.raised
                  THEN mf_raise(t, net'[t])
                  ELSE /\ pc' = [pc EXCEPT ![t] = "parse_bundle"]
                       /\ UNCHANGED <<status, mf_history>>
    /\ UNCHANGED <<map_files_cache, data_files, index, overwrite_flag, map_files_zip,
                   last_op, log, start_force, calls>>

\* download_map_files, lines 69-74: the bundle is fetched unless it is a local file
fetch_bundle(t, answer, outcome) ==
    /\ pc[t] = "fetch_bundle"
    /\ IF is_file(fs, dirs, map_files_zip[t])
       THEN /\ pc' = [pc EXCEPT ![t] = "parse_bundle"]
            /\ bundle' = [bundle EXCEPT ![t] = <<"local">>]
            /\ file_content' = <<>>
            /\ UNCHANGED <<force_overwrite, fs, dirs, status, mf_history, net>>
       ELSE LET d == download_file(fs, dirs, force_overwrite, map_files_zip[t], TRUE,
                                   answer, outcome)
                fetched == \E k \in 1..Len(d.events) : d.events[k] = "fetch"
            IN /\ fs' = d.fs
               /\ dirs' = d.dirs
               /\ force_overwrite' = d.force
               /\ net' = [net EXCEPT ![t].fetches = IF fetched THEN @ + 1 ELSE @]
               /\ bundle' = [bundle EXCEPT ![t] = d.events]
               /\ file_content' = line_103(d.events, outcome)
               /\ IF d.raised
                  THEN mf_raise(t, net'[t])
                  ELSE /\ pc' = [pc EXCEPT ![t] = "parse_bundle"]
                       /\ UNCHANGED <<status, mf_history>>
    /\ UNCHANGED <<map_files_cache, data_files, index, overwrite_flag, map_files_zip,
                   last_op, log, start_force, calls>>

\* download_map_files, lines 76-83: the archive is opened and parsed, the cache set
parse_bundle(t) ==
    /\ pc[t] = "parse_bundle"
    /\ IF ~is_file(fs, dirs, map_files_zip[t])
       THEN /\ mf_raise(t, net[t])
            /\ map_files_cache' = map_files_cache
       ELSE LET parsed == parse_entries(fs[map_files_zip[t]].bytes, <<>>)
            IN /\ map_files_cache' = store_cache(map_files_cache, parsed)
               /\ IF parsed.raised
                  THEN mf_raise(t, net[t])
                  ELSE mf_return(t, parsed.map_files, net[t])
    /\ UNCHANGED <<force_overwrite, fs, dirs, data_files, index, overwrite_flag,
                   map_files_zip, last_op, log, start_force, calls, net, bundle>>
    /\ file_content' = <<>>

\* api_client.data.list_files: a listing, or a failure
ListAnswers ==
    {[raised |-> FALSE, listing |-> l] : l \in SeqsUpTo(ListingNames, MaxListing)}
        \cup {[raised |-> TRUE, listing |-> <<>>]}

CallDownloadFiles ==
    /\ \E files \in SeqsUpTo(DataChoices, MaxFiles), flag \in BOOLEAN :
          download_files(Main, files, flag)
    /\ UNCHANGED product_vars /\ catalog' = <<>>

StepDownloadFiles ==
    /\ pc[Main] = "download_files"
    /\ \E answer \in BOOLEAN, outcome \in FetchOutcomes(data_files[Main][index[Main]]) :
          download_files_loop(Main, answer, outcome)
    /\ UNCHANGED product_vars /\ catalog' = <<>>

CallDownloadMapFiles == download_map_files(Main) /\ UNCHANGED product_vars /\ catalog' = <<>>

ListMapFiles ==
    /\ \E answer \in ListAnswers : list_map_files(Main, answer)
    /\ UNCHANGED product_vars /\ catalog' = <<>>

FetchBundle ==
    /\ pc[Main] = "fetch_bundle"
    /\ \E answer \in BOOLEAN, outcome \in FetchOutcomes(map_files_zip[Main]) :
          fetch_bundle(Main, answer, outcome)
    /\ UNCHANGED product_vars /\ catalog' = <<>>

ParseBundle == parse_bundle(Main) /\ UNCHANGED product_vars /\ catalog' = <<>>

\* One caller, one call at a time: the program as it is run.
Next ==
    \/ CallDownloadFiles
    \/ StepDownloadFiles
    \/ CallDownloadMapFiles
    \/ ListMapFiles
    \/ FetchBundle
    \/ ParseBundle

Spec == Init /\ [][Next]_vars

\* Two callers whose download_map_files calls on the one instance may overlap.
OverlapCall == (\E t \in Threads : download_map_files(t)) /\ UNCHANGED product_vars /\ catalog' = <<>>

OverlapList ==
    /\ \E t \in Threads, answer \in ListAnswers : list_map_files(t, answer)
    /\ UNCHANGED product_vars /\ catalog' = <<>>

OverlapFetch ==
    /\ \E t \in Threads :
          /\ pc[t] = "fetch_bundle"
          /\ \E answer \in BOOLEAN, outcome \in FetchOutcomes(map_files_zip[t]) :
                fetch_bundle(t, answer, outcome)
    /\ UNCHANGED product_vars /\ catalog' = <<>>

OverlapParse == (\E t \in Threads : parse_bundle(t)) /\ UNCHANGED product_vars /\ catalog' = <<>>

NextOverlap ==
    \/ OverlapCall
    \/ OverlapList
    \/ OverlapFetch
    \/ OverlapParse

SpecOverlap == Init /\ [][NextOverlap]_vars

\* -------------------------------- download_map_files alone, listing kept
\* the listing step, with the answer of list_files kept for the next step
ListMapFilesKept ==
    /\ \E answer \in ListAnswers :
          /\ list_map_files(Main, answer)
          /\ catalog' = IF answer.raised THEN <<>> ELSE answer.listing
    /\ UNCHANGED product_vars

NextMapFiles ==
    \/ CallDownloadMapFiles
    \/ ListMapFilesKept
    \/ FetchBundle
    \/ ParseBundle

SpecMapFiles == Init /\ [][NextMapFiles]_vars

\* ----------------------------------------- building an EquityOptionProduct
downloader_vars ==
    <<force_overwrite, map_files_cache, fs, dirs, pc, data_files, index, overwrite_flag,
      map_files_zip, status, last_op, mf_history, log, start_force, calls, net, bundle,
      file_content>>

DataTypes == {Trade, Chains}
OptionStyles == {American, European}

\* build, lines 52-73: the data type, the option style unless chains, and
\* _ask_ticker putting the entered ticker to validate_ticker (one entry of a
\* ticker is followed; a rejected ticker ends the build here)
ask_ticker(data_type, style, t, answer) ==
    LET option_style == IF data_type = Chains THEN NoStyle ELSE style
        v == validate_ticker(data_type, option_style, USA, t, answer)
    IN /\ product.stage = "asking"
       /\ probe = "none"
       /\ probe' = IF v.ret THEN "True" ELSE "False"
       /\ listing_calls' = v.listing_calls
       /\ catalog' = IF v.listing_calls = <<>> THEN <<>> ELSE answer
       /\ product' = [stage |-> IF v.ret THEN "ticker" ELSE "asking",
                      data_type |-> data_type, market |-> USA, ticker |-> t,
                      option_style |-> option_style, start_date |-> 1, end_date |-> 1]
       /\ calendar' = {}
       /\ product_files' = NoFiles

\* build, lines 75-83: _list_dates unless chains, the date range, the product
ask_dates(start_date, end_date) ==
    /\ product.stage = "ticker"
    /\ start_date <= end_date
    /\ listing_calls' =
           IF product.data_type # Chains
           THEN <<ListingCall(ticker_directory(product.market, product.data_type,
                                               product.ticker),
                              zip_pattern(product.data_type, product.option_style))>>
           ELSE <<>>
    /\ product' = [product EXCEPT !.stage = "built", !.start_date = start_date,
                                  !.end_date = end_date]
    /\ catalog' = <<>>
    /\ UNCHANGED <<probe, calendar, product_files>>

\* _get_data_files called on the built product
resolve_files(answer, tradable) ==
    LET r == get_data_files(product, answer, tradable)
    IN /\ product.stage = "built"
       /\ product_files' = [done |-> TRUE, list |-> r.list]
       /\ listing_calls' = r.listing_calls
       /\ catalog' = IF r.listing_calls = <<>> THEN <<>> ELSE answer
       /\ calendar' = IF r.listing_calls = <<>> THEN tradable ELSE {}
       /\ product' = [product EXCEPT !.stage = "resolved"]
       /\ probe' = "none"

AskTicker ==
    /\ product.stage = "asking" /\ probe = "none"
    /\ \E data_type \in DataTypes, style \in OptionStyles, t \in Tickers,
          answer \in SeqsUpTo(CatalogEntries, MaxEntries) :
          ask_ticker(data_type, style, t, answer)
    /\ UNCHANGED downloader_vars

AskDates ==
    /\ product.stage = "ticker"
    /\ \E start_date \in Dates, end_date \in Dates : ask_dates(start_date, end_date)
    /\ UNCHANGED downloader_vars

GetDataFiles ==
    /\ product.stage = "built"
    /\ \E answer \in SeqsUpTo(CatalogEntries, MaxEntries), tradable \in SUBSET Dates :
          resolve_files(answer, tradable)
    /\ UNCHANGED downloader_vars

InitProduct == Init /\ \A p \in FilePaths : fs[p] = Absent

NextProduct ==
    \/ AskTicker
    \/ AskDates
    \/ GetDataFiles

SpecProduct == InitProduct /\ [][NextProduct]_vars

\* ------------------------------------------------------- reading the log
\* the log is that of Main's current or last download_files call
InRun == last_op[Main] = "download_files"

\* what happened to the file at position i
EventsOf(i) == {log[k].ev : k \in {j \in 1..Len(log) : log[j].i = i}}

\* the positions whose local path existed when the file was reached
Collided == {i \in 1..Len(data_files[Main]) : "exists" \in EventsOf(i)}

\* the positions at which click.confirm was invoked
Asked == {log[k].i : k \in {j \in 1..Len(log) : log[j].ev = "confirm"}}
ConfirmCalls == Cardinality({k \in 1..Len(log) : log[k].ev = "confirm"})

\* what the _download_file call for the bundle did in t's download_map_files
BundleEvents(t) == {bundle[t][k] : k \in 1..Len(bundle[t])}

\* ------------------------------------------------------------------ claims
\* C1: in one download_files call with overwrite_flag false the confirmation
\* is invoked at most once; when the call began undecided it is invoked
\* exactly at the first file found to exist locally, and every colliding file
\* of the call is fetched exactly when the stored answer is yes.
C1_AskAtMostOnce ==
    (InRun /\ ~overwrite_flag[Main]) =>
        /\ ConfirmCalls <= 1
        /\ \A i \in Asked : \A j \in Collided : i <= j
        /\ Asked \subseteq Collided
        /\ (start_force = "None" /\ Collided # {}) => Asked # {}
        /\ \A j \in Collided : ("fetch" \in EventsOf(j)) <=> (force_overwrite = "True")

\* C1 witness: a call that asked at one collision and met a later one
C1_Witness ==
    /\ InRun /\ ~overwrite_flag[Main]
    /\ \E i \in Asked : \E j \in Collided : i < j

C3_DecisionFinal ==
    [][force_overwrite # "None" => force_overwrite' = force_overwrite]_vars

\* C3 witness: a call begun with the policy decided has met an existing file
C3_Witness ==
    /\ start_force # "None"
    /\ InRun /\ Collided # {}
    /\ force_overwrite = start_force

\* a turn of Main's download_files loop, and what it added to the log
LoopStep == pc[Main] = "download_files" /\ log' # log
Current == data_files[Main][index[Main]]
NewEvents == {log'[k].ev : k \in (Len(log) + 1)..Len(log')}

\* C4: with overwrite_flag false and the confirmation declined, a file that
\* exists locally is skipped: no fetch is issued, nothing below the data
\* directory changes, and the confirmation is invoked for it only if it is
\* the first collision met while the decision was still undecided.
C4_DeclinedSkipsAll ==
    [][(/\ LoopStep
        /\ ~overwrite_flag[Main]
        /\ exists(fs, dirs, Current)
        /\ force_overwrite' = "False")
       => /\ "fetch" \notin NewEvents
          /\ fs' = fs /\ dirs' = dirs
          /\ pc'[Main] = "idle" => status'[Main] = "returned"
          /\ "confirm" \in NewEvents => (force_overwrite = "None" /\ Collided = {})]_vars

\* C4 witness: the confirmation was declined at one file of the call and a
\* later existing file of the same call was skipped
C4_Witness ==
    /\ InRun /\ ~overwrite_flag[Main]
    /\ start_force = "None" /\ force_overwrite = "False"
    /\ \E i \in Asked : \E j \in Collided :
          i < j /\ EventsOf(j) = {"progress", "exists", "warn_exists", "warn_not_billed"}

\* every position up to n has its progress notification, in list order first
ProgressInOrder(n) ==
    LET marks == SelectSeq(log, LAMBDA e : e.ev = "progress")
    IN /\ Len(marks) = n
       /\ \A k \in 1..n : marks[k].i = k

\* C5: a fetch answered with "File not found" is met with the warning, changes
\* no local file or directory, does not raise, and hands over to the next
\* file of the list (or returns after the last); a call that has not raised
\* has reached every file up to its position, in list order.
C5_NotFoundSkipped ==
    /\ [][(LoopStep /\ "not_found" \in NewEvents)
           => /\ "warn_not_found" \in NewEvents
              /\ fs' = fs /\ dirs' = dirs
              /\ "write" \notin NewEvents
              /\ status'[Main] # "raised"
              /\ IF index[Main] < Len(data_files[Main])
                 THEN pc'[Main] = "download_files" /\ index'[Main] = index[Main] + 1
                 ELSE pc'[Main] = "idle" /\ status'[Main] = "returned"]_vars
    /\ []((InRun /\ status[Main] = "returned") => ProgressInOrder(Len(data_files[Main])))
    /\ []((InRun /\ status[Main] = "running") => ProgressInOrder(index[Main] - 1))

\* C5 witness: a file that was not found, not the last of its list, in a
\* call that went on to the end
C5_Witness ==
    /\ InRun /\ status[Main] = "returned"
    /\ \E i \in 1..(Len(data_files[Main]) - 1) :
          "not_found" \in EventsOf(i) /\ "fetch" \in EventsOf(i + 1)

\* C6: a fetch that fails otherwise ends the call at once: the call has
\* raised, the failing fetch is the last thing it did and no later file has a
\* progress notification, a prompt, a fetch or a write.
C6_FailureAborts ==
    \A k \in 1..Len(log) :
        (InRun /\ log[k].ev = "error") =>
            /\ k + 1 = Len(log) /\ log[k + 1].ev = "raise"
            /\ pc[Main] = "idle" /\ status[Main] = "raised"
            /\ index[Main] = log[k].i
            /\ \A j \in (log[k].i + 1)..Len(data_files[Main]) : EventsOf(j) = {}

\* C6 witness: the fetch of a file that is not the last of its list failed
C6_Witness ==
    /\ InRun
    /\ \E k \in 1..Len(log) : log[k].ev = "error" /\ log[k].i < Len(data_files[Main])

\* ---------------------------------------------- download_map_files claims
\* the stages of a download_map_files call that found the cache empty
MfStages == {"list_files", "fetch_bundle", "parse_bundle"}

\* the archive holds an entry MapFile.parse rejects
HasBad(bytes) == \E k \in 1..Len(bytes) : MapFile_parse(bytes[k]).raised

\* C7: of the first two download_map_files calls, when the first returns, the
\* second returns an equal list and the two together issue exactly one listing
\* call and at most one fetch; every call made after one that returned issues
\* no listing and no fetch and returns the same list.
C7_OneListingTwoCalls ==
    /\ (Len(mf_history) >= 2 /\ mf_history[1].ok) =>
          /\ mf_history[2].ok
          /\ mf_history[2].list = mf_history[1].list
          /\ mf_history[1].lists + mf_history[2].lists = 1
          /\ mf_history[1].fetches + mf_history[2].fetches <= 1
    /\ \A i \in 1..Len(mf_history) : \A j \in (i + 1)..Len(mf_history) :
          mf_history[i].ok =>
              /\ mf_history[j].ok
              /\ mf_history[j].list = mf_history[i].list
              /\ mf_history[j].lists = 0 /\ mf_history[j].fetches = 0

\* C7 witness: two calls returned, the first after fetching the bundle
C7_Witness ==
    /\ Len(mf_history) = 2
    /\ mf_history[1].ok /\ mf_history[2].ok
    /\ mf_history[1].fetches = 1

\* the call of t cannot get its list: it is leaving at the listing or at the
\* fetch, or the bundle was not found, is no local file or holds a bad entry
MfFailing(t) ==
    \/ pc[t] \in {"list_files", "fetch_bundle"}
    \/ /\ pc[t] = "parse_bundle"
       /\ \/ "warn_not_found" \in BundleEvents(t)
          \/ ~is_file(fs, dirs, map_files_zip[t])
          \/ HasBad(fs[map_files_zip[t]].bytes)

\* C8: a download_map_files call that fails to list, to fetch (a fetch
\* answered "File not found" included) or to parse an entry ends by raising
\* and leaves the cache None.
C8_FailureLeavesCacheEmpty ==
    [][\A t \in Threads :
          (pc[t] \in MfStages /\ MfFailing(t) /\ (pc'[t] = "idle" \/ pc[t] = "parse_bundle"))
              => /\ pc'[t] = "idle" /\ status'[t] = "raised"
                 /\ ~mf_history'[Len(mf_history')].ok
                 /\ map_files_cache' = NoneCache]_vars

\* C8 witness: a call raised in the parse loop after parsing a first entry
C8_Witness ==
    /\ last_op[Main] = "download_map_files" /\ status[Main] = "raised"
    /\ "write" \in BundleEvents(Main)
    /\ is_file(fs, dirs, map_files_zip[Main])
    /\ HasBad(fs[map_files_zip[Main]].bytes)
    /\ ~MapFile_parse(fs[map_files_zip[Main]].bytes[1]).raised
    /\ map_files_cache = NoneCache

\* C9: with overwrite_flag true, or the decision already True, a file that
\* exists locally goes to the fetch with no warning and no confirmation, the
\* fetched content replaces it, and the decision stays as it was.
C9_FlagOrAllowNoPrompt ==
    [][(/\ LoopStep
        /\ exists(fs, dirs, Current)
        /\ (overwrite_flag[Main] \/ force_overwrite = "True"))
       => /\ "confirm" \notin NewEvents
          /\ "warn_exists" \notin NewEvents
          /\ "fetch" \in NewEvents
          /\ force_overwrite' = force_overwrite
          /\ ("ok" \in NewEvents /\ fs[Current].kind = "file") =>
                /\ "write" \in NewEvents
                /\ fs'[Current].kind = "file"
                /\ fs'[Current].bytes \in RemoteBytes(Current)]_vars

\* C9 witness: overwrite_flag true, the decision still undecided, and an
\* existing file overwritten
C9_Witness ==
    /\ InRun /\ overwrite_flag[Main]
    /\ force_overwrite = "None"
    /\ \E i \in Collided : "write" \in EventsOf(i)

\* C10: while two download_map_files calls overlap, at most one listing call
\* and at most one fetch are issued between them
C10_OneFetchUnderOverlap ==
    \A t1 \in Threads : \A t2 \in Threads \ {t1} :
        (pc[t1] \in MfStages /\ pc[t2] \in MfStages) =>
            /\ net[t1].lists + net[t2].lists <= 1
            /\ net[t1].fetches + net[t2].fetches <= 1

\* ------------------------------------------------------ later claims
\* Main's download_map_files is at lines 69-74 and takes its step
BundleStep == pc[Main] = "fetch_bundle" /\ pc'[Main] # "fetch_bundle"

\* what _download_file on path p, having done evs, has made of the local mirror
Mirrored(p, evs) ==
    /\ \A q \in FilePaths \ {p} : fs'[q] = fs[q]
    /\ "ok" \notin evs => (fs' = fs /\ dirs' = dirs /\ "write" \notin evs)
    /\ ("ok" \in evs /\ fs[p].kind # "dir") =>
          /\ "write" \in evs
          /\ fs'[p] = File(file_content')
          /\ dirs' = dirs \cup {p.dir}
          /\ exists(fs', dirs', p)
    /\ ("ok" \in evs /\ fs[p].kind = "dir") =>
          /\ "write_failed" \in evs
          /\ fs' = fs
          /\ status'[Main] = "raised"

\* C11: after a fetch answered with content the local file at the requested
\* relative path is exactly that content, whatever was there before, and its
\* parent directory exists; without such an answer nothing is written. (The
\* path being a local directory is the FilesystemFailure of the write: it
\* raises and leaves the mirror as it was.)
C11_FetchedBytesWritten ==
    [][/\ LoopStep => Mirrored(Current, NewEvents)
       /\ BundleStep =>
             Mirrored(map_files_zip[Main],
                      BundleEvents(Main)')]_vars

\* C11 witness: an existing file with other content was replaced by the
\* fetched content
C11_Witness ==
    /\ InRun /\ status[Main] = "returned"
    /\ index[Main] = Len(data_files[Main])
    /\ {"exists", "ok", "write"} \subseteq EventsOf(index[Main])
    /\ fs[data_files[Main][index[Main]]] = File(file_content)
    /\ file_content # OldBytes
    /\ start_force = "None"

\* ------------------------------------------------ EquityOptionProduct claims
InRange(d) == product.start_date <= d /\ d <= product.end_date

Resolved(chains) ==
    /\ product.stage = "resolved"
    /\ product_files.done
    /\ (product.data_type = Chains) = chains

FileDates == [k \in 1..Len(product_files.list) |-> product_files.list[k].date]

Ascending(ds) == \A j, k \in 1..Len(ds) : j < k => ds[j] < ds[k]

\* C12: for the chains data type _get_data_files returns exactly one file per
\* tradable date from start_date to end_date, in calendar order, each at
\* option/usa/chains/{date}/spy.csv, and asks the catalog for no listing
C12_ChainsOnePerTradableDate ==
    Resolved(TRUE) =>
        /\ Len(product_files.list) = Cardinality({d \in calendar : InRange(d)})
        /\ {FileDates[k] : k \in 1..Len(FileDates)} = {d \in calendar : InRange(d)}
        /\ Ascending(FileDates)
        /\ \A k \in 1..Len(product_files.list) :
              product_files.list[k] =
                  [directory |-> <<"option/", "u", "s", "a", "/", "chains">>,
                   date |-> FileDates[k], name |-> <<"s", "p", "y">>, ext |-> ".csv"]
        /\ listing_calls = <<>>
        /\ catalog = <<>>

C12_Witness ==
    /\ Resolved(TRUE)
    /\ Len(product_files.list) = 2
    /\ \E d \in calendar : ~InRange(d)
    /\ product.ticker = <<"S", "P", "Y">>

\* validate_ticker has just answered
Probed == probe # "none" /\ product.stage \in {"asking", "ticker"}

\* the entry is {digits}_{data type}_{option style}.zip for the product asked for
MatchesProduct(e) ==
    /\ e.date \in Dates
    /\ e.data_type = <<"t", "rade">>
    /\ e.option_style = (IF product.option_style = American THEN <<"a", "merican">>
                         ELSE <<"e", "uropean">>)
    /\ e.ext = ".zip"

\* C13: validate_ticker is true for the chains data type without any listing
\* call; for the other data types it lists option/usa/minute/spy/ once and is
\* true exactly when an entry of that listing matches the pattern of the data
\* type and the option style
C13_TickerProbe ==
    Probed =>
        /\ product.data_type = Chains => (probe = "True" /\ listing_calls = <<>>)
        /\ product.data_type # Chains =>
              /\ (probe = "True") = (\E k \in 1..Len(catalog) : MatchesProduct(catalog[k]))
              /\ Len(listing_calls) = 1
              /\ listing_calls[1].directory =
                     <<"option/", "u", "s", "a", "/", "minute", "/", "s", "p", "y", "/">>

C13_Witness ==
    /\ Probed
    /\ product.data_type = Trade
    /\ product.ticker = <<"S", "P", "Y">>
    /\ probe = "False"
    /\ Len(catalog) = 2

\* C14: the dates of the files the ranged branch returns lie within
\* [start_date, end_date] and are strictly ascending, so none is repeated,
\* whatever the listing holds; a listing without a match gives the empty list
C14_RangeSortedUnique ==
    Resolved(FALSE) =>
        /\ \A k \in 1..Len(FileDates) : InRange(FileDates[k])
        /\ Ascending(FileDates)
        /\ (\A k \in 1..Len(catalog) : ~MatchesProduct(catalog[k])) =>
              product_files.list = <<>>

C14_Witness ==
    /\ Resolved(FALSE)
    /\ \E j, k \in 1..Len(catalog) :
          j < k /\ MatchesProduct(catalog[j]) /\ catalog[k].date = catalog[j].date
                /\ MatchesProduct(catalog[k]) /\ InRange(catalog[j].date)
    /\ \E k \in 1..Len(catalog) : ~MatchesProduct(catalog[k])
    /\ Len(product_files.list) = 1

\* ------------------------------------------------- later downloader claims
\* the files of the call that the loop has reached
Reached ==
    IF status[Main] = "running" THEN 1..(index[Main] - 1)
    ELSE IF data_files[Main] = <<>> THEN {} ELSE 1..index[Main]

\* C15: download_files takes the files in list order; the progress
\* notification of a file is the first thing that happens for it, after
\* everything that happened for the file before it, and every file reached
\* has one, also when it is then skipped
C15_ProgressFirst ==
    InRun =>
        /\ Len(log) > 0 => log[1].i = 1
        /\ \A k \in 1..(Len(log) - 1) : log[k + 1].i \in {log[k].i, log[k].i + 1}
        /\ \A k \in 1..Len(log) :
              (log[k].ev = "progress") = (k = 1 \/ log[k - 1].i < log[k].i)
        /\ \A i \in Reached : "progress" \in EventsOf(i)
        /\ \A i \in 1..Len(data_files[Main]) : i \notin Reached => EventsOf(i) = {}

\* C15 witness: a call whose first file was skipped after the confirmation
\* was declined and whose second file was not found
C15_Witness ==
    /\ InRun /\ status[Main] = "returned"
    /\ Len(data_files[Main]) = 2
    /\ {"confirm", "warn_exists"} \subseteq EventsOf(1)
    /\ "fetch" \notin EventsOf(1)
    /\ "warn_not_found" \in EventsOf(2)

\* C16: download_map_files fetches the bundle exactly when it is not already
\* a local file; the fetch is made with the overwrite forced, so it invokes
\* no confirmation, warns of no existing file and leaves the decision alone
C16_BundleFetchedUnlessLocal ==
    [][BundleStep =>
          /\ ("fetch" \in BundleEvents(Main)') = ~is_file(fs, dirs, map_files_zip[Main])
          /\ net'[Main].fetches =
                 net[Main].fetches + (IF is_file(fs, dirs, map_files_zip[Main]) THEN 0 ELSE 1)
          /\ is_file(fs, dirs, map_files_zip[Main]) => (fs' = fs /\ dirs' = dirs)
          /\ "confirm" \notin BundleEvents(Main)'
          /\ "warn_exists" \notin BundleEvents(Main)'
          /\ force_overwrite' = force_overwrite]_vars

\* C16 witness: the bundle's path was taken by a directory and the
\* confirmation had been declined before; the bundle was fetched all the same
C16_Witness ==
    /\ last_op[Main] = "download_map_files"
    /\ fs[map_files_zip[Main]].kind = "dir"
    /\ force_overwrite = "False"
    /\ net[Main].fetches = 1
    /\ "fetch" \in BundleEvents(Main)

\* Main's download_map_files is at lines 66-67 and takes its step
ListStep == pc[Main] = "list_files" /\ pc'[Main] # "list_files"

\* C17: of the entries list_files answered with, download_map_files takes
\* the last one in listing order whose name ends in ".zip", whatever other
\* entries stand before, between or after; when no entry ends in ".zip" the
\* call raises
C17_LastZipChosen ==
    [][ListStep =>
          LET zips == {k \in 1..Len(catalog') : catalog'[k].ext = ".zip"}
          IN IF zips = {}
             THEN /\ status'[Main] = "raised" /\ pc'[Main] = "idle"
                  /\ map_files_cache' = map_files_cache
                  /\ net'[Main].fetches = 0
             ELSE /\ pc'[Main] = "fetch_bundle"
                  /\ \E k \in zips : /\ \A j \in zips : j <= k
                                     /\ map_files_zip'[Main] = catalog'[k]]_vars

\* C17 witness: a listing of two different .zip entries, the second chosen
C17_Witness ==
    /\ pc[Main] = "fetch_bundle"
    /\ Len(catalog) = 2
    /\ catalog[1].ext = ".zip" /\ catalog[2].ext = ".zip"
    /\ catalog[1] # catalog[2]
    /\ map_files_zip[Main] = catalog[2]

\* the policy was left alone: no warning, no confirmation, the decision kept
PolicyUntouched(evs) ==
    /\ "fetch" \in evs
    /\ "exists" \notin evs
    /\ "warn_exists" \notin evs
    /\ "confirm" \notin evs
    /\ "warn_not_billed" \notin evs
    /\ force_overwrite' = force_overwrite

\* C18: a file that does not exist below the data directory is fetched
\* without the overwrite policy being consulted: no warning, no confirmation
\* and no change of the decision, also when the decision is False and
\* overwrite_flag is false
C18_AbsentAlwaysFetched ==
    [][/\ (LoopStep /\ ~exists(fs, dirs, Current)) => PolicyUntouched(NewEvents)
       /\ (BundleStep /\ ~exists(fs, dirs, map_files_zip[Main]))
             => PolicyUntouched(BundleEvents(Main)')]_vars

\* C18 witness: the confirmation was declined at the first file of a call
\* without overwrite_flag, and the second file, not there locally, was fetched
C18_Witness ==
    /\ InRun /\ ~overwrite_flag[Main]
    /\ force_overwrite = "False"
    /\ "confirm" \in EventsOf(1)
    /\ "exists" \notin EventsOf(2)
    /\ {"fetch", "write"} \subseteq EventsOf(2)

\* C19: when a download_files call is ended by a failing file, what it did
\* before stays: every file it had written holds the fetched content, and
\* the decision is the one stored before the failure
C19_NoRollbackOnAbort ==
    (InRun /\ status[Main] = "raised") =>
        /\ \A i \in 1..(index[Main] - 1) :
              "write" \in EventsOf(i) =>
                  /\ fs[data_files[Main][i]].kind = "file"
                  /\ fs[data_files[Main][i]].bytes \in RemoteBytes(data_files[Main][i])
                  /\ data_files[Main][i].dir \in dirs
        /\ Asked # {} => force_overwrite # "None"
        /\ start_force # "None" => force_overwrite = start_force

\* C19 witness: the first file replaced a local one after the confirmation
\* was given, then the fetch of the second file failed
C19_Witness ==
    /\ InRun /\ status[Main] = "raised"
    /\ index[Main] = 2
    /\ {"exists", "confirm", "write"} \subseteq EventsOf(1)
    /\ "error" \in EventsOf(2)
    /\ force_overwrite = "True"
    /\ fs[data_files[Main][1]] # File(OldBytes)

\* no download_map_files call before the k-th one returned
NoneReturned(k) == \A j \in 1..(k - 1) : ~mf_history[j].ok

\* C20: a download_map_files call that raised leaves nothing behind in the
\* cache: as long as no call has returned, every call lists again and the
\* cache is None; once a call has returned, the cache is set and every later
\* call returns without listing or fetching
C20_FailureDoesNotPoison ==
    /\ \A k \in 1..Len(mf_history) :
          IF NoneReturned(k)
          THEN mf_history[k].lists = 1
          ELSE mf_history[k].ok /\ mf_history[k].lists = 0 /\ mf_history[k].fetches = 0
    /\ map_files_cache.is_none = NoneReturned(Len(mf_history) + 1)
    /\ pc[Main] \in MfStages => NoneReturned(Len(mf_history) + 1)

\* C20 witness: a call raised, the next one listed, fetched and returned
C20_Witness ==
    /\ Len(mf_history) = 2
    /\ ~mf_history[1].ok /\ mf_history[1].lists = 1
    /\ mf_history[2].ok /\ mf_history[2].lists = 1 /\ mf_history[2].fetches = 1
    /\ ~map_files_cache.is_none
====
